---- MODULE Spec2Model ----
(***************************************************************************)
(* A model of backend/piper_wrapper.py: class PiperWrapper, the manager of *)
(* one long-lived Piper subprocess.  The manager's handlers (synthesize,   *)
(* terminate) are run by caller threads; a handler is cut into steps only  *)
(* where the code blocks on the subprocess (the write/flush of the request,*)
(* the readline of the response, the read of stderr to end-of-file, the    *)
(* wait for exit).  The engine is the environment: it may consume request  *)
(* lines, write files, write diagnostics, answer, close streams and exit.  *)
(***************************************************************************)
EXTENDS Integers, Sequences, FiniteSets, TLC

\* ------------------------------------------------------------- bounds
\* Total number of synthesize/terminate calls made over a run.
MaxCalls == 2
\* Chunks of diagnostic text the stderr pipe holds before a writer blocks.
StderrCap == 1
\* Chunks of diagnostic text the engine writes over a run.
MaxDiag == 2
\* Request lines the stdin pipe holds before a writer blocks.
StdinCap == 2

\* ---------------------------------------------------------- constants
\* self.process.wait(timeout=5)
TerminateTimeout == 5

\* The threads that call the manager.
Callers == {"t1", "t2"}

\* Input texts, as sequences of tokens: words, "SP" (a space), "NL" (a
\* line feed inside the text).
Texts == { <<"hello">>, <<"hello", "NL", "world", "SP", "again">> }

\* --------------------------------------------------- paths and lines
\* A token of an engine response line is <<dir, name>>: a path component
\* pair, or white space when dir = -1.  dir = 0 is a place outside every
\* scratch directory, dir = k > 0 is the scratch directory of call k.
SP == <<-1, "SP">>
NL == <<-1, "NL">>
IsSpace(tok) == tok[1] = -1

\* Path(tmpdir) / "output.wav" and Path(tmpdir) / "timings.json"
OutWav(k) == <<k, "output.wav">>
TimingsPath(k) == <<k, "timings.json">>
\* A file that exists outside the scratch directories, and a text that
\* names nothing ("ERROR: bad model").
OtherWav == <<0, "other.wav">>
ErrText == <<0, "ERROR: bad model">>

VARIABLES
  process,      \* self.process: "None" or "Popen"
  sessions,     \* number of subprocess.Popen sessions started so far
  probes,       \* number of subprocess.run version probes so far
  alive,        \* the session's process is running
  inOpen,       \* the engine holds the read end of its stdin open
  outOpen,      \* the engine holds the write end of its stdout open
  errOpen,      \* the engine holds the write end of its stderr open
  stdinPipe,    \* request lines written and not yet consumed by the engine
  engPending,   \* requests the engine consumed and has not answered
  stdoutPipe,   \* response lines written and not yet read by the manager
  stderrUnread, \* chunks of diagnostic text in the stderr pipe
  diagTotal,    \* chunks of diagnostic text the engine ever wrote
  fs,           \* the files that exist: path -> content
  tmpdirs,      \* the scratch directories that exist (named by call)
  mkdtemps,     \* number of scratch directories ever created
  sigterms,     \* SIGTERMs sent to the session's process
  sigkills,     \* SIGKILLs sent to the session's process
  nextCall,     \* the id of the next call
  pc,           \* each caller's position
  cur,          \* each caller's current call id (0: not in a call)
  text,         \* each caller's current text argument
  nwrites,      \* stdin.write calls made by the caller's current call
  nlines,       \* request lines the current call put on the stdin pipe
  nreads,       \* stdout.readline calls made by the caller's current call
  pending,      \* the error a caller is about to raise once stderr is read
  waited,       \* seconds a caller has spent in process.wait
  result        \* the outcome of the call that completed last

mgr == <<process, sessions, probes>>
eng == <<alive, inOpen, outOpen, errOpen, engPending, diagTotal>>
pipes == <<stdinPipe, stdoutPipe, stderrUnread>>
disk == <<fs, tmpdirs, mkdtemps>>
sigs == <<sigterms, sigkills>>
io == <<nwrites, nlines, nreads>>
thr == <<nextCall, pc, cur, text, pending, waited, result>>
vars == <<mgr, eng, pipes, disk, sigs, io, thr>>

\* ------------------------------------------------------------ results
NoLine == << >>
NoTimings == [source |-> "none", entries |-> << >>]
NoResult ==
  [call |-> 0, op |-> "none", kind |-> "none", diag |-> 0, msg |-> NoLine,
   resp |-> NoLine, audio |-> "", timings |-> NoTimings, writes |-> 0,
   lines |-> 0, reads |-> 0]

\* A raised error: kind names the raise site, diag the number of chunks of
\* diagnostic text in the message, m the other text the message relays.
Raised(k, o, e, d, m) ==
  [NoResult EXCEPT !.call = k, !.op = o, !.kind = e, !.diag = d, !.msg = m]

Returned(k, o, a, t) ==
  [NoResult EXCEPT !.call = k, !.op = o, !.kind = "ok", !.audio = a,
                   !.timings = t]

\* The six RuntimeErrors synthesize raises itself, named as the taxonomy
\* names them (lines 44, 47, 49, 67 and 78, 84, 88).
Taxonomy ==
  {"EngineUnavailable", "EngineTerminated", "EngineMisconfigured",
   "EnginePipeBroken", "EngineFailed", "EngineReportedError"}

\* ------------------------------------------------------ pure helpers
\* A serializer that copies the text as it is, raw line feeds included.
EscapeNothing(tok) == tok

\* json.dumps escapes a line feed inside the text: the serialized request
\* holds the two characters backslash-n, never a raw line feed.
EscapeToken(tok) == IF tok = "NL" THEN "\\n" ELSE tok

JsonDumps(txt, out) ==
  [text |-> [i \in DOMAIN txt |-> EscapeToken(txt[i])], output_file |-> out]

\* The number of lines stdin.write(request + "\n") puts on the pipe: one
\* for the terminator and one for every raw line feed before it.
LinesOf(request) ==
  1 + Cardinality({i \in DOMAIN request.text : request.text[i] = "NL"})

\* str.strip(): leading and trailing white space dropped.
RECURSIVE LStrip(_)
LStrip(s) ==
  IF s # << >> /\ IsSpace(Head(s)) THEN LStrip(Tail(s)) ELSE s

RECURSIVE RStrip(_)
RStrip(s) ==
  IF s # << >> /\ IsSpace(s[Len(s)])
  THEN RStrip(SubSeq(s, 1, Len(s) - 1))
  ELSE s

Strip(s) == RStrip(LStrip(s))

\* Path(resp_path).exists(): Path("") is the current directory, which
\* exists; any other text exists when the file system holds it.
PathExists(p) == IF p = << >> THEN TRUE ELSE p[1] \in DOMAIN fs

\* text.split(): the words of the text, white space dropped.
RECURSIVE Split(_)
Split(txt) ==
  IF txt = << >> THEN << >>
  ELSE IF Head(txt) \in {"SP", "NL"} THEN Split(Tail(txt))
  ELSE <<Head(txt)>> \o Split(Tail(txt))

\* A time is a Python float, a double.  The double the literal 0.2 denotes
\* is 7205759403792794 * 2^-55; a time the estimator computes is written
\* [k, e] and is the double k * 0.2 + e * 2^-55, with k the number of
\* additions and e the rounding error they left.
Double(k, e) == [k |-> k, e |-> e]

\* start = 0.0
Zero == Double(0, 0)

\* 7205759403792794 modulo 32: the low bits of 0.2 that decide a rounding.
FifthLow == 26

\* The distance between neighbouring doubles around k * 0.2, in units of
\* 2^-55: the binades [0.125, 0.25), [0.25, 0.5), [0.5, 1) and [1, 2).
Ulp(k) ==
  IF k <= 1 THEN 1 ELSE IF k = 2 THEN 2 ELSE IF k <= 4 THEN 4 ELSE 8

\* start + 0.2 in double arithmetic: the exact sum rounded to the nearest
\* double of its binade, a tie to the even one.  (Good up to 1.8, the
\* ninth sum.)
AddFifth(d) ==
  LET k == d.k + 1
      u == Ulp(k)
      low == (k * FifthLow + d.e) % (2 * u)
      r == low % u
      up == 2 * r > u \/ (2 * r = u /\ low >= u)
  IN Double(k, IF up THEN d.e + u - r ELSE d.e - r)

\* An estimator that never advances start: every entry begins at 0.0.
RECURSIVE EstimateFromZero(_, _)
EstimateFromZero(words, start) ==
  IF words = << >> THEN << >>
  ELSE <<[word |-> Head(words), startTime |-> start,
          endTime |-> AddFifth(start)]>>
       \o EstimateFromZero(Tail(words), start)

\* The loop of lines 97-104: an entry from start to start + 0.2 for each
\* word, then start += 0.2.
RECURSIVE Estimate(_, _)
Estimate(words, start) ==
  IF words = << >> THEN << >>
  ELSE <<[word |-> Head(words), startTime |-> start,
          endTime |-> AddFifth(start)]>>
       \o Estimate(Tail(words), AddFifth(start))

\* The fallback estimator of lines 94-104: one entry per word.
FallbackTimings(txt) ==
  [source |-> "fallback", entries |-> Estimate(Split(txt), Zero)]

\* What a well-formed sidecar holds: the aligned timings of the engine,
\* which are not the estimator's.
SidecarEntries ==
  <<[word |-> "hello", startTime |-> Zero, endTime |-> Double(2, 0)]>>

\* json.loads(timings_path.read_text()): the value a well-formed sidecar
\* holds.
JsonLoads(content) == IF content = "json-ok" THEN SidecarEntries ELSE << >>

\* A reader that finds the sidecar and returns no entry of it.
SidecarDropped(content) == [source |-> "sidecar", entries |-> << >>]

\* The timings of lines 90-91, taken from the sidecar.
SidecarTimings(content) ==
  [source |-> "sidecar", entries |-> JsonLoads(content)]

\* The file system with scratch directory k and its contents removed.
RemoveTree(k) == [p \in {q \in DOMAIN fs : q[1] # k} |-> fs[p]]

\* A scratch directory made with no cleanup attached: leaving the block
\* removes nothing.
CleanupNever(k) == UNCHANGED <<tmpdirs, fs, mkdtemps>>

\* Leaving the "with tempfile.TemporaryDirectory()" block of line 52, on
\* return or on an exception alike.
Cleanup(k) ==
  /\ tmpdirs' = tmpdirs \ {k}
  /\ fs' = RemoveTree(k)
  /\ mkdtemps' = mkdtemps

\* A poll that forgets an exit: it always reports a running process.
PollForgetful == "None"

\* process.poll(): "None" while the process runs.
Poll == IF alive THEN "None" ELSE "exited"

\* Popen with stdin, stdout and stderr all PIPE gives all three streams.
HasStreams == process = "Popen"

\* The checks with the test for a missing process left out.
PrecheckNoStubTest ==
  IF Poll # "None" THEN "EngineTerminated"
  ELSE IF ~HasStreams THEN "EngineMisconfigured"
  ELSE "pass"

\* The precondition checks of lines 42-49, in order.
Precheck ==
  IF process = "None" THEN "EngineUnavailable"
  ELSE IF Poll # "None" THEN "EngineTerminated"
  ELSE IF ~HasStreams THEN "EngineMisconfigured"
  ELSE "pass"

\* _get_error_message (lines 144-157): the outcomes of running
\* [executable, "--version"], and the message each gives.
ProbeOutcomes == {"oserror", "stderr", "stdout", "silent"}

ProbeMessage(outcome) ==
  CASE outcome = "oserror" -> <<<<0, "str(exc)">>>>
    [] outcome = "stderr" -> <<<<0, "result.stderr">>>>
    [] outcome = "stdout" -> <<<<0, "result.stdout">>>>
    [] OTHER -> <<<<0, "Piper executable not found">>>>

\* Lines 86-114, once a response line was read: the response path check,
\* the timings, the audio.  k is the call, txt its text, line the tokens
\* of the line read (kept in the outcome as resp).
Outcome(k, txt, line) ==
  LET resp_path == Strip(line)
      out ==
        IF resp_path # << >> /\ ~PathExists(resp_path)
        THEN Raised(k, "synthesize", "EngineReportedError", 0, resp_path)
        ELSE IF TimingsPath(k) \in DOMAIN fs
                /\ fs[TimingsPath(k)] = "json-bad"
        THEN Raised(k, "synthesize", "JSONDecodeError", 0, NoLine)
        ELSE IF OutWav(k) \notin DOMAIN fs
        THEN Raised(k, "synthesize", "FileNotFoundError", 0, NoLine)
        ELSE Returned(k, "synthesize", fs[OutWav(k)],
                      IF TimingsPath(k) \in DOMAIN fs
                      THEN SidecarTimings(fs[TimingsPath(k)])
                      ELSE FallbackTimings(txt))
  IN [out EXCEPT !.resp = line]

\* --------------------------------------------------------------- Init
\* The state after PiperWrapper.__init__ (lines 13-39): a session when
\* shutil.which finds the executable, none otherwise.
Init ==
  \E found \in BOOLEAN :
    /\ process = IF found THEN "Popen" ELSE "None"
    /\ sessions = IF found THEN 1 ELSE 0
    /\ probes = 0
    /\ alive = found
    /\ inOpen = found
    /\ outOpen = found
    /\ errOpen = found
    /\ stdinPipe = << >>
    /\ engPending = << >>
    /\ stdoutPipe = << >>
    /\ stderrUnread = 0
    /\ diagTotal = 0
    /\ fs = (OtherWav :> "other")
    /\ tmpdirs = {}
    /\ mkdtemps = 0
    /\ sigterms = 0
    /\ sigkills = 0
    /\ nextCall = 1
    /\ pc = [c \in Callers |-> "idle"]
    /\ cur = [c \in Callers |-> 0]
    /\ text = [c \in Callers |-> << >>]
    /\ nwrites = [c \in Callers |-> 0]
    /\ nlines = [c \in Callers |-> 0]
    /\ nreads = [c \in Callers |-> 0]
    /\ pending = [c \in Callers |-> "none"]
    /\ waited = [c \in Callers |-> 0]
    /\ result = NoResult

\* ------------------------------------------------------ caller steps
\* The callers are interchangeable: the one named first makes the first
\* call.
MayEnter(c) == c = "t1" \/ nextCall > 1

\* A caller enters a handler: the call takes the next call id.
Enter(c) ==
  /\ pc[c] = "idle"
  /\ MayEnter(c)
  /\ nextCall <= MaxCalls
  /\ nextCall' = nextCall + 1

\* A handler returns or raises r: the outcome is kept, with the number of
\* writes, request lines and reads the call made, and the caller is idle.
Finish(c, r, w, n, rd) ==
  /\ pc' = [pc EXCEPT ![c] = "idle"]
  /\ result' = [r EXCEPT !.writes = w, !.lines = n, !.reads = rd]
  /\ cur' = [cur EXCEPT ![c] = 0]
  /\ text' = [text EXCEPT ![c] = << >>]
  /\ pending' = [pending EXCEPT ![c] = "none"]
  /\ waited' = [waited EXCEPT ![c] = 0]
  /\ nwrites' = [nwrites EXCEPT ![c] = 0]
  /\ nlines' = [nlines EXCEPT ![c] = 0]
  /\ nreads' = [nreads EXCEPT ![c] = 0]

\* Call k of caller c, with text txt, goes on to its first blocking step.
Begin(c, p, k, txt) ==
  /\ pc' = [pc EXCEPT ![c] = p]
  /\ cur' = [cur EXCEPT ![c] = k]
  /\ text' = [text EXCEPT ![c] = txt]
  /\ result' = NoResult
  /\ UNCHANGED <<pending, waited, io>>

\* A handler that starts a new session when it finds the old one exited.
RestartSession ==
  /\ process' = process
  /\ sessions' = IF process = "Popen" /\ ~alive
                 THEN sessions + 1
                 ELSE sessions

\* The session is never assigned outside __init__ (lines 30 and 39).
KeepSession == UNCHANGED <<process, sessions>>

\* synthesize, lines 41-58: the precondition checks, then the scratch
\* directory and the request.  With no process the message comes from the
\* version probe; with an exited process stderr is read to its end, which
\* the exit has already put there.
Synthesize(c) ==
  \E txt \in Texts, outcome \in ProbeOutcomes :
    LET k == nextCall
        check == Precheck
    IN
    /\ Enter(c)
    /\ KeepSession
    /\ UNCHANGED <<eng, stdinPipe, stdoutPipe, sigs>>
    /\ IF check = "EngineUnavailable"
       THEN /\ probes' = probes + 1
            /\ Finish(c, Raised(k, "synthesize", check, 0,
                                ProbeMessage(outcome)), 0, 0, 0)
            /\ UNCHANGED <<stderrUnread, disk>>
       ELSE /\ probes' = probes
            /\ outcome = "oserror"  \* no probe is run: its outcome is moot
            /\ IF check = "EngineTerminated"
               THEN /\ stderrUnread' = 0
                    /\ Finish(c, Raised(k, "synthesize", check,
                                        stderrUnread, NoLine), 0, 0, 0)
                    /\ UNCHANGED disk
               ELSE IF check = "EngineMisconfigured"
               THEN /\ Finish(c, Raised(k, "synthesize", check, 0, NoLine),
                              0, 0, 0)
                    /\ UNCHANGED <<stderrUnread, disk>>
               ELSE /\ tmpdirs' = tmpdirs \cup {k}
                    /\ mkdtemps' = mkdtemps + 1
                    /\ Begin(c, "write", k, txt)
                    /\ UNCHANGED <<stderrUnread, fs>>

\* Lines 59-68: stdin.write(request + "\n") and flush.  The write blocks
\* while the pipe is full; it raises BrokenPipeError once the engine no
\* longer holds the read end.
WriteRequest(c) ==
  LET k == cur[c]
      request == JsonDumps(text[c], OutWav(k))
      n == LinesOf(request)
  IN
  /\ pc[c] = "write"
  /\ nwrites' = [nwrites EXCEPT ![c] = @ + 1]
  /\ KeepSession
  /\ UNCHANGED <<probes, eng, stdoutPipe, stderrUnread, disk, sigs, nreads,
                 nextCall, cur, text, waited, result>>
  /\ IF ~inOpen
     THEN /\ pending' = [pending EXCEPT ![c] = "EnginePipeBroken"]
          /\ pc' = [pc EXCEPT ![c] = "drain"]
          /\ UNCHANGED <<stdinPipe, nlines>>
     ELSE /\ Len(stdinPipe) + n <= StdinCap
          /\ stdinPipe' = stdinPipe \o [i \in 1..n |-> request]
          /\ nlines' = [nlines EXCEPT ![c] = n]
          /\ pc' = [pc EXCEPT ![c] = "read"]
          /\ UNCHANGED pending

\* Lines 71-114: stdout.readline(), which blocks until the pipe holds a
\* line or every writer has closed it.  An empty read leads to the read of
\* stderr (line 82); a line leads through the rest of the handler and out
\* of the scratch directory's block.  (The BrokenPipeError handler of
\* lines 73-79 guards a read, which never raises that error.)
ReadResponse(c) ==
  LET k == cur[c] IN
  /\ pc[c] = "read"
  /\ KeepSession
  /\ UNCHANGED <<probes, eng, stdinPipe, stderrUnread, sigs, nextCall>>
  /\ IF stdoutPipe # << >>
     THEN /\ stdoutPipe' = Tail(stdoutPipe)
          /\ Finish(c, Outcome(k, text[c], Head(stdoutPipe).toks),
                    nwrites[c], nlines[c], nreads[c] + 1)
          /\ Cleanup(k)
     ELSE /\ ~outOpen
          /\ nreads' = [nreads EXCEPT ![c] = @ + 1]
          /\ pending' = [pending EXCEPT ![c] = "EngineFailed"]
          /\ pc' = [pc EXCEPT ![c] = "drain"]
          /\ UNCHANGED <<stdoutPipe, disk, result, cur, text, waited,
                         nwrites, nlines>>

\* An error raised with the diagnostics left unread.
RaisedUnread(k, o, e, d, m) == Raised(k, o, e, 0, m)

\* The raise of lines 67, 78 and 84, with the stderr text in the message.
RaisedWithStderr(k, o, e, d, m) == Raised(k, o, e, d, m)

\* Lines 63-68 and 81-84: stderr.read(), which returns at end-of-file, when
\* the engine no longer holds stderr open, with all the text not yet read;
\* then the raise, out of the scratch directory's block.
DrainStderr(c) ==
  LET k == cur[c] IN
  /\ pc[c] = "drain"
  /\ ~errOpen
  /\ stderrUnread' = 0
  /\ Finish(c, RaisedWithStderr(k, "synthesize", pending[c], stderrUnread,
                                NoLine),
            nwrites[c], nlines[c], nreads[c])
  /\ Cleanup(k)
  /\ KeepSession
  /\ UNCHANGED <<probes, eng, stdinPipe, stdoutPipe, sigs, nextCall>>

\* terminate, lines 159-161: self.process.poll() on no process raises
\* AttributeError; an exited process is left alone; a running one is
\* sent SIGTERM (Popen.terminate) and then waited for.
Terminate(c) ==
  LET k == nextCall IN
  /\ Enter(c)
  /\ KeepSession
  /\ UNCHANGED <<probes, eng, pipes, disk, sigkills>>
  /\ IF process = "None"
     THEN /\ Finish(c, Raised(k, "terminate", "AttributeError", 0, NoLine),
                    0, 0, 0)
          /\ UNCHANGED sigterms
     ELSE IF Poll # "None"
     THEN /\ Finish(c, Returned(k, "terminate", "", NoTimings), 0, 0, 0)
          /\ UNCHANGED sigterms
     ELSE /\ sigterms' = sigterms + 1
          /\ Begin(c, "wait", k, << >>)

\* Line 162, process.wait(timeout=5): a second passes with the process
\* still running.
WaitTick(c) ==
  /\ pc[c] = "wait"
  /\ alive
  /\ waited[c] < TerminateTimeout
  /\ waited' = [waited EXCEPT ![c] = @ + 1]
  /\ UNCHANGED <<mgr, eng, pipes, disk, sigs, io, nextCall, pc, cur, text,
                 pending, result>>

\* Line 162: the process has exited, wait returns and so does terminate.
WaitExit(c) ==
  /\ pc[c] = "wait"
  /\ ~alive
  /\ Finish(c, Returned(cur[c], "terminate", "", NoTimings), 0, 0, 0)
  /\ UNCHANGED <<mgr, eng, pipes, disk, sigs, nextCall>>

\* A terminate that escalates: on the timeout it kills the process.
ExpireKill(c) ==
  /\ sigkills' = sigkills + 1
  /\ Finish(c, Returned(cur[c], "terminate", "", NoTimings), 0, 0, 0)
  /\ UNCHANGED <<mgr, eng, pipes, disk, sigterms, nextCall>>

\* Line 162: the timeout passes: wait raises TimeoutExpired, which
\* terminate lets through; nothing more is sent to the process.
Expire(c) ==
  /\ Finish(c, Raised(cur[c], "terminate", "TimeoutExpired", 0, NoLine),
            0, 0, 0)
  /\ UNCHANGED <<mgr, eng, pipes, disk, sigs, nextCall>>

WaitTimeout(c) ==
  /\ pc[c] = "wait"
  /\ alive
  /\ waited[c] = TerminateTimeout
  /\ Expire(c)

\* ------------------------------------------------------- engine steps
\* The engine is the subprocess started at line 30; the wrapper fixes none
\* of its behaviour, so each step below is one thing a process holding the
\* three pipes can do.
Unchanged_callers == UNCHANGED <<mgr, sigs, io, thr, tmpdirs, mkdtemps>>

\* The engine reads one request line from its stdin.
EngineRead ==
  /\ alive /\ inOpen
  /\ stdinPipe # << >>
  /\ engPending' = Append(engPending, Head(stdinPipe).output_file[1])
  /\ stdinPipe' = Tail(stdinPipe)
  /\ UNCHANGED <<alive, inOpen, outOpen, errOpen, diagTotal, stdoutPipe,
                 stderrUnread, fs>>
  /\ Unchanged_callers

\* The engine writes the audio of its oldest unanswered request to the
\* output_file the request names, while that directory exists.
EngineWriteAudio ==
  /\ alive
  /\ engPending # << >>
  /\ LET k == Head(engPending) IN
       /\ k \in tmpdirs
       /\ OutWav(k) \notin DOMAIN fs
       /\ fs' = fs @@ (OutWav(k) :> "audio")
  /\ UNCHANGED <<eng, pipes>>
  /\ Unchanged_callers

\* The engine writes a timings sidecar beside the audio, well-formed JSON
\* or not.
EngineWriteSidecar ==
  /\ alive
  /\ engPending # << >>
  /\ LET k == Head(engPending) IN
       /\ k \in tmpdirs
       /\ TimingsPath(k) \notin DOMAIN fs
       /\ \E content \in {"json-ok", "json-bad"} :
            fs' = fs @@ (TimingsPath(k) :> content)
  /\ UNCHANGED <<eng, pipes>>
  /\ Unchanged_callers

\* The engine writes a chunk of diagnostic text to its stderr; the write
\* blocks while the pipe is full and nobody reads it.
EngineDiag ==
  /\ alive /\ errOpen
  /\ diagTotal < MaxDiag
  /\ stderrUnread < StderrCap \/ \E c \in Callers : pc[c] = "drain"
  /\ diagTotal' = diagTotal + 1
  /\ stderrUnread' = stderrUnread + 1
  /\ UNCHANGED <<alive, inOpen, outOpen, errOpen, engPending, stdinPipe,
                 stdoutPipe, fs>>
  /\ Unchanged_callers

\* The lines the engine may answer request k with: the path it was asked
\* to write; an error text after a space; an empty line; the path of
\* another file.
ResponseLines(k) ==
  { <<OutWav(k), NL>>, <<SP, ErrText, NL>>, <<NL>>, <<OtherWav, NL>> }

\* The engine answers its oldest unanswered request with one line.
EngineRespond ==
  /\ alive /\ outOpen
  /\ engPending # << >>
  /\ \E line \in ResponseLines(Head(engPending)) :
       stdoutPipe' =
         Append(stdoutPipe, [for |-> Head(engPending), toks |-> line])
  /\ engPending' = Tail(engPending)
  /\ UNCHANGED <<alive, inOpen, outOpen, errOpen, diagTotal, stdinPipe,
                 stderrUnread, fs>>
  /\ Unchanged_callers

\* The engine closes one of its streams and goes on running.
EngineCloseStdin ==
  /\ alive /\ inOpen
  /\ inOpen' = FALSE
  /\ UNCHANGED <<alive, outOpen, errOpen, engPending, diagTotal, pipes, fs>>
  /\ Unchanged_callers

EngineCloseStdout ==
  /\ alive /\ outOpen
  /\ outOpen' = FALSE
  /\ UNCHANGED <<alive, inOpen, errOpen, engPending, diagTotal, pipes, fs>>
  /\ Unchanged_callers

EngineCloseStderr ==
  /\ alive /\ errOpen
  /\ errOpen' = FALSE
  /\ UNCHANGED <<alive, inOpen, outOpen, engPending, diagTotal, pipes, fs>>
  /\ Unchanged_callers

\* The engine exits, of its own accord or on a signal: every stream it
\* held is closed.
EngineExit ==
  /\ alive
  /\ alive' = FALSE
  /\ inOpen' = FALSE
  /\ outOpen' = FALSE
  /\ errOpen' = FALSE
  /\ engPending' = << >>
  /\ UNCHANGED <<diagTotal, pipes, fs>>
  /\ Unchanged_callers

\* ---------------------------------------------------- specification
Next ==
  \/ \E c \in Callers : Synthesize(c)
  \/ \E c \in Callers : WriteRequest(c)
  \/ \E c \in Callers : ReadResponse(c)
  \/ \E c \in Callers : DrainStderr(c)
  \/ \E c \in Callers : Terminate(c)
  \/ \E c \in Callers : WaitTick(c)
  \/ \E c \in Callers : WaitExit(c)
  \/ \E c \in Callers : WaitTimeout(c)
  \/ EngineRead
  \/ EngineWriteAudio
  \/ EngineWriteSidecar
  \/ EngineDiag
  \/ EngineRespond
  \/ EngineCloseStdin
  \/ EngineCloseStdout
  \/ EngineCloseStderr
  \/ EngineExit

Spec == Init /\ [][Next]_vars

\* ------------------------------------------------- sequential callers
\* No call is in progress: a caller that waits for each call to complete
\* before the next is made enters only here.
NoCallInProgress == \A c \in Callers : pc[c] = "idle"

SeqSynthesize(c) == NoCallInProgress /\ Synthesize(c)

SeqTerminate(c) == NoCallInProgress /\ Terminate(c)

\* The manager called sequentially, the engine free as before.
NextSeq ==
  \/ \E c \in Callers : SeqSynthesize(c)
  \/ \E c \in Callers : WriteRequest(c)
  \/ \E c \in Callers : ReadResponse(c)
  \/ \E c \in Callers : DrainStderr(c)
  \/ \E c \in Callers : SeqTerminate(c)
  \/ \E c \in Callers : WaitTick(c)
  \/ \E c \in Callers : WaitExit(c)
  \/ \E c \in Callers : WaitTimeout(c)
  \/ EngineRead
  \/ EngineWriteAudio
  \/ EngineWriteSidecar
  \/ EngineDiag
  \/ EngineRespond
  \/ EngineCloseStdin
  \/ EngineCloseStdout
  \/ EngineCloseStderr
  \/ EngineExit

SpecSeq == Init /\ [][NextSeq]_vars

\* ------------------------------------------------ a well-behaved engine
\* An engine that stays alive until it is signalled, keeps its streams
\* open and serves each request line in turn: it writes a chunk of
\* diagnostic text to stderr (blocking while that pipe is full), then the
\* audio at output_file, perhaps a sidecar, and then its one response
\* line, the path.
ChattyWork ==
  /\ alive /\ errOpen
  /\ engPending # << >>
  /\ stderrUnread < StderrCap
  /\ diagTotal' = diagTotal + 1
  /\ stderrUnread' = stderrUnread + 1
  /\ LET k == Head(engPending) IN
       /\ k \in tmpdirs
       /\ OutWav(k) \notin DOMAIN fs
       /\ fs' = fs @@ (OutWav(k) :> "audio")
  /\ UNCHANGED <<alive, inOpen, outOpen, errOpen, engPending, stdinPipe,
                 stdoutPipe>>
  /\ Unchanged_callers

ChattyRespond ==
  /\ alive /\ outOpen
  /\ engPending # << >>
  /\ LET k == Head(engPending) IN
       /\ OutWav(k) \in DOMAIN fs
       /\ stdoutPipe' =
            Append(stdoutPipe, [for |-> k, toks |-> <<OutWav(k), NL>>])
  /\ engPending' = Tail(engPending)
  /\ UNCHANGED <<alive, inOpen, outOpen, errOpen, diagTotal, stdinPipe,
                 stderrUnread, fs>>
  /\ Unchanged_callers

\* The engine exits once it was sent SIGTERM, sooner or later.
ChattyExit == sigterms > 0 /\ EngineExit

\* Sequential calls against the well-behaved engine.
NextChatty ==
  \/ \E c \in Callers : SeqSynthesize(c)
  \/ \E c \in Callers : WriteRequest(c)
  \/ \E c \in Callers : ReadResponse(c)
  \/ \E c \in Callers : DrainStderr(c)
  \/ \E c \in Callers : SeqTerminate(c)
  \/ \E c \in Callers : WaitTick(c)
  \/ \E c \in Callers : WaitExit(c)
  \/ \E c \in Callers : WaitTimeout(c)
  \/ EngineRead
  \/ ChattyWork
  \/ EngineWriteSidecar
  \/ ChattyRespond
  \/ ChattyExit

\* The manager was built with the engine found.
InitChatty == Init /\ process = "Popen"

SpecChatty == InitChatty /\ [][NextChatty]_vars

\* ------------------------------------------------------------ claims
\* Caller c's step reads a response line and completes its call.
ReadsLine(c) ==
  /\ pc[c] = "read"
  /\ stdoutPipe # << >>
  /\ pc'[c] = "idle"

\* A step enters a synthesize call.
EntersSynthesize ==
  /\ nextCall' = nextCall + 1
  /\ result'.op # "terminate"
  /\ \A c \in Callers : pc'[c] # "wait" \/ pc[c] = "wait"

\* C1: a manager built with an executable that is not on the search path
\* has no process and started none; every synthesize call on it fails
\* with EngineUnavailable, and no call creates a scratch directory or
\* puts anything on an engine input stream.
C1_UnavailableTouchesNothing ==
  process = "None" =>
    /\ sessions = 0
    /\ result.op = "synthesize" =>
         /\ result.kind = "EngineUnavailable"
         /\ result.writes = 0
         /\ result.lines = 0
    /\ mkdtemps = 0
    /\ tmpdirs = {}
    /\ stdinPipe = << >>
    /\ \A c \in Callers : pc[c] = "idle" /\ nwrites[c] = 0

\* Two synthesize calls were made with no process; the last has failed.
C1_Witness ==
  /\ process = "None"
  /\ result.op = "synthesize"
  /\ result.call = 2
  /\ probes = 2

\* C2: terminate on a manager with no process is a no-op: it completes
\* without raising.
C2_TerminateWithoutProcessReturns ==
  (process = "None" /\ result.op = "terminate") => result.kind = "ok"

\* C3: every synthesize call entered after the session's process exited
\* fails with EngineTerminated, and its message holds the diagnostic text
\* the engine wrote before it exited.
C3_TerminatedCarriesDiagnostics ==
  [][(process = "Popen" /\ ~alive /\ EntersSynthesize) =>
       /\ result'.kind = "EngineTerminated"
       /\ result'.diag = diagTotal]_vars

\* C4: once a synthesize call has completed, however it ended, its scratch
\* directory and everything in it are gone: a scratch directory that
\* exists, or a file in one, belongs to a call still in progress.
C4_ScratchGoneAfterCall ==
  /\ \A k \in tmpdirs : \E c \in Callers : cur[c] = k
  /\ \A p \in DOMAIN fs : p[1] = 0 \/ \E c \in Callers : cur[c] = p[1]
  /\ result.call \notin tmpdirs

\* Both calls got a scratch directory; the last one failed on the engine's
\* answer, and no scratch directory is left.
C4_Witness ==
  /\ mkdtemps = 2
  /\ result.kind = "EngineReportedError"
  /\ result.call = 2
  /\ tmpdirs = {}

\* C5: whenever the response line read, once trimmed, names nothing that
\* exists (an empty line included), synthesize fails with
\* EngineReportedError and the message holds the trimmed line.
C5_BadResponseIsReported ==
  [][\A c \in Callers :
       LET resp_path == Strip(Head(stdoutPipe).toks) IN
       (ReadsLine(c)
        /\ (resp_path = << >> \/ resp_path[1] \notin DOMAIN fs)) =>
         /\ result'.kind = "EngineReportedError"
         /\ result'.msg = resp_path]_vars

\* C6: a synthesize call that returns no Result fails with one of the six
\* errors of the taxonomy.
C6_OnlyTaxonomyErrors ==
  (result.op = "synthesize" /\ result.kind # "ok") =>
    result.kind \in Taxonomy

\* C7: the manager has at most one session, the one its construction
\* started: no step of synthesize or terminate starts a session or
\* replaces the process.
C7_OneSessionForLife ==
  [][/\ sessions' = sessions
     /\ process' = process
     /\ sessions <= 1]_vars

\* The second call found the process exited and failed; the session count
\* is still one.
C7_Witness ==
  /\ result.kind = "EngineTerminated"
  /\ result.call = 2
  /\ sessions = 1

\* C8: a synthesize call that passes its precondition checks calls write
\* exactly once, with exactly one request line, and then reads at most one
\* line; it reads only after the write succeeded, and after a failure it
\* neither writes again nor reads again.
C8_OneLineOutOneLineIn ==
  /\ \A c \in Callers :
       /\ nwrites[c] <= 1
       /\ nreads[c] <= 1
       /\ nlines[c] = (IF pc[c] = "read" \/ nreads[c] = 1 THEN 1 ELSE 0)
       /\ nreads[c] = 1 => nwrites[c] = 1
       /\ pc[c] \in {"read", "drain"} => nwrites[c] = 1
       /\ pc[c] = "write" => nwrites[c] = 0
  /\ (result.op = "synthesize" /\ result.kind \notin
        {"EngineUnavailable", "EngineTerminated", "EngineMisconfigured"}) =>
       /\ result.writes = 1
       /\ result.reads <= 1
       /\ result.lines = (IF result.kind = "EnginePipeBroken" THEN 0 ELSE 1)
       /\ result.kind = "EnginePipeBroken" => result.reads = 0

\* A call wrote its one line, read one line and failed on it.
C8_Witness ==
  /\ result.kind = "EngineReportedError"
  /\ result.writes = 1
  /\ result.lines = 1
  /\ result.reads = 1

\* C9: the manager serializes concurrent synthesize calls: at most one
\* request is between its write and its read, and each caller reads the
\* line that answers its own request.
C9_WriteReadIsCriticalSection ==
  [][/\ Cardinality({c \in Callers : pc'[c] = "read"}) <= 1
     /\ \A c \in Callers :
          ReadsLine(c) => Head(stdoutPipe).for = cur[c]]_vars

\* C10: terminate signals the process only when it is running, waits no
\* longer than the timeout, never sends a kill, raises the timeout only
\* when the process ran through all of it, and returns only with the
\* process exited.
C10_GracefulTerminate ==
  [][/\ sigterms' # sigterms => (alive /\ process = "Popen")
     /\ sigkills' = 0
     /\ \A c \in Callers : waited'[c] <= TerminateTimeout
     /\ (result'.op = "terminate" /\ result'.kind = "ok") => ~alive'
     /\ (result' # result /\ result'.kind = "TimeoutExpired") =>
          \E c \in Callers : pc[c] = "wait" /\ alive
                              /\ waited[c] = TerminateTimeout]_vars

\* terminate signalled the running process, the process exited within the
\* wait, and terminate returned.
C10_Witness ==
  /\ result.op = "terminate"
  /\ result.kind = "ok"
  /\ sigterms = 1
  /\ ~alive

\* The whitespace-separated words of a text, in order.
WordsOf(txt) ==
  LET at == {i \in DOMAIN txt : txt[i] \notin {"SP", "NL"}}
      nth[n \in 0..Len(txt)] ==
        IF n = 0 THEN 0 ELSE CHOOSE i \in at : i > nth[n - 1] /\
                               \A j \in at : j > nth[n - 1] => i <= j
  IN [n \in 1..Cardinality(at) |-> txt[nth[n]]]

\* Time a is before time b (the rounding errors are far below 0.2).
Before(a, b) == a.k < b.k \/ (a.k = b.k /\ a.e < b.e)

\* Entry t lasts exactly 0.2: endTime - startTime = 0.2.
LastsFifth(t) ==
  t.endTime.k = t.startTime.k + 1 /\ t.endTime.e = t.startTime.e

\* Entry t lasts 0.2 to within the rounding of one addition: endTime is
\* no further from startTime + 0.2 than half the distance between
\* neighbouring doubles at endTime.
LastsFifthRounded(t) ==
  LET err == t.endTime.e - t.startTime.e IN
  /\ t.endTime.k = t.startTime.k + 1
  /\ 2 * err <= Ulp(t.endTime.k)
  /\ -2 * err <= Ulp(t.endTime.k)

\* The entries are the words of the text in order, the first starts at
\* 0.0, every start is before its end and is the end before it.
WordsInContiguousOrder(t, txt) ==
  /\ Len(t) = Len(WordsOf(txt))
  /\ \A i \in DOMAIN t : t[i].word = WordsOf(txt)[i]
  /\ t # << >> => t[1].startTime = Zero
  /\ \A i \in DOMAIN t : Before(t[i].startTime, t[i].endTime)
  /\ \A i \in DOMAIN t : i > 1 => t[i].startTime = t[i - 1].endTime

\* Caller c's step returns a Result with no sidecar in its scratch
\* directory.
ReturnsWithoutSidecar(c) ==
  /\ ReadsLine(c)
  /\ result'.kind = "ok"
  /\ TimingsPath(cur[c]) \notin DOMAIN fs

\* C11 (as amended): a synthesize call that succeeds with no sidecar
\* returns one timing entry per whitespace-separated word, in order; the
\* first starts at 0.0, every start is before its end, every start is the
\* end before it, and every entry lasts 0.2 seconds to within the rounding
\* of one double addition.
C11_FallbackTimingsRounded ==
  [][\A c \in Callers :
       ReturnsWithoutSidecar(c) =>
         /\ WordsInContiguousOrder(result'.timings.entries, text[c])
         /\ \A i \in DOMAIN result'.timings.entries :
              LastsFifthRounded(result'.timings.entries[i])]_vars

\* A call returned the estimate of a text of three words: the third entry
\* runs from 0.4 to 0.6000000000000001.
C11_Witness ==
  /\ result.kind = "ok"
  /\ Len(result.timings.entries) = 3
  /\ result.timings.entries[3].startTime = Double(2, 0)
  /\ result.timings.entries[3].endTime = Double(3, 2)

\* C11 (as claimed): a synthesize call that succeeds with no sidecar
\* returns one timing entry per whitespace-separated word, in order; the
\* first starts at 0.0, every entry lasts 0.2 seconds, every start is
\* before its end and is the end before it.
C11_FallbackTimingsExact ==
  [][\A c \in Callers :
       ReturnsWithoutSidecar(c) =>
         /\ WordsInContiguousOrder(result'.timings.entries, text[c])
         /\ \A i \in DOMAIN result'.timings.entries :
              LastsFifth(result'.timings.entries[i])]_vars

\* C12: a synthesize call that succeeds with a sidecar in its scratch
\* directory returns exactly what the sidecar holds, and no entry of the
\* word estimate.
C12_SidecarVerbatim ==
  [][\A c \in Callers :
       (ReadsLine(c) /\ result'.kind = "ok"
        /\ TimingsPath(cur[c]) \in DOMAIN fs) =>
         LET held == IF fs[TimingsPath(cur[c])] = "json-ok"
                     THEN SidecarEntries
                     ELSE << >>
             estimate == Estimate(WordsOf(text[c]), Zero)
         IN /\ result'.timings.entries = held
            /\ \A i \in DOMAIN result'.timings.entries :
                 \A j \in DOMAIN estimate :
                   result'.timings.entries[i] # estimate[j]]_vars

\* A call returned the aligned timings of its sidecar, with its audio.
C12_Witness ==
  /\ result.kind = "ok"
  /\ result.audio = "audio"
  /\ result.timings.entries = SidecarEntries

\* C13: the audio a successful synthesize call returns is the content of
\* the file that the trimmed response line names, also when that is not
\* the output path the request proposed.
C13_AudioIsResponseFile ==
  [][\A c \in Callers :
       LET resp_path == Strip(Head(stdoutPipe).toks) IN
       (ReadsLine(c) /\ result'.kind = "ok" /\ resp_path # << >>) =>
         /\ resp_path[1] \in DOMAIN fs
         /\ result'.audio = fs[resp_path[1]]]_vars

\* C14: a synthesize call whose response read returned nothing at
\* end-of-file is about to fail with EngineFailed, and it is not blocked:
\* its next step, the read of the diagnostics and the raise, can be taken
\* whether the engine has exited or still holds its stderr open.
C14_EofFailsWithoutBlocking ==
  \A c \in Callers :
    (pc[c] = "drain" /\ nreads[c] = 1) =>
      /\ pending[c] = "EngineFailed"
      /\ ENABLED DrainStderr(c)

\* C15: a synthesize call whose write or flush found the engine's input
\* pipe closed reads no response line and, once the diagnostics are read,
\* fails with EnginePipeBroken carrying all the diagnostic text that was
\* in the stderr pipe.
C15_BrokenPipeReadsNothing ==
  [][\A c \in Callers :
       /\ (pc[c] = "write" /\ ~inOpen /\ pc'[c] # "write") =>
            /\ pc'[c] = "drain"
            /\ pending'[c] = "EnginePipeBroken"
            /\ stdinPipe' = stdinPipe
       /\ pending[c] = "EnginePipeBroken" =>
            /\ nreads[c] = 0
            /\ pc'[c] \in {"drain", "idle"}
            /\ pc'[c] = "idle" =>
                 /\ stdoutPipe' = stdoutPipe
                 /\ result'.kind = "EnginePipeBroken"
                 /\ result'.call = cur[c]
                 /\ result'.diag = stderrUnread
                 /\ result'.reads = 0
                 /\ result'.lines = 0]_vars

\* A call failed on the closed input pipe with the engine's diagnostic
\* text in its message, while a response line was there to be read.
C15_Witness ==
  /\ result.kind = "EnginePipeBroken"
  /\ result.diag = 1
  /\ result.reads = 0
  /\ stdoutPipe # << >>

\* C16: with an engine that stays alive (until it is signalled) and
\* writes diagnostics and then one response line for each request,
\* sequential calls never get stuck: while a call is in progress, the
\* manager or the engine can take a step.
C16_CallsNeverStuck ==
  (\E c \in Callers : pc[c] # "idle") => ENABLED NextChatty

\* C17: in sequential calls, the line a call reads is the answer to its
\* own request and the only line there is, whatever the outcome of the
\* calls before it; and between calls no response line is left unread.
C17_ReadsOwnResponse ==
  [][/\ \A c \in Callers :
          ReadsLine(c) =>
            /\ Head(stdoutPipe).for = cur[c]
            /\ Len(stdoutPipe) = 1
     /\ (\A c \in Callers : pc'[c] = "idle") => stdoutPipe' = << >>]_vars

\* Both calls reached the read step (each got a scratch directory, and
\* the streams the second one used were open for the first); the second
\* read one line, its own, and returned its audio.
C17_Witness ==
  /\ result.call = 2
  /\ result.kind = "ok"
  /\ result.reads = 1
  /\ mkdtemps = 2
  /\ stdoutPipe = << >>

\* A step enters a terminate call.
EntersTerminate ==
  /\ nextCall' = nextCall + 1
  /\ ~EntersSynthesize

\* C18: once the engine has exited the manager stays unusable: the
\* process never runs again, every synthesize call entered from then on
\* fails with EngineTerminated without making a scratch directory or
\* writing a request line, and a terminate call entered from then on
\* returns without sending a signal.
C18_UnusableAfterExit ==
  [][(process = "Popen" /\ ~alive) =>
       /\ ~alive'
       /\ EntersSynthesize =>
            /\ result'.call = nextCall
            /\ result'.kind = "EngineTerminated"
            /\ result'.writes = 0
            /\ mkdtemps' = mkdtemps
            /\ tmpdirs' = tmpdirs
            /\ stdinPipe' = stdinPipe
       /\ EntersTerminate =>
            /\ result'.call = nextCall
            /\ result'.kind = "ok"
            /\ sigterms' = sigterms
            /\ sigkills' = sigkills]_vars

\* The engine wrote diagnostics and exited; a terminate call returned (a
\* synthesize call would have read the diagnostics, a terminate entered
\* before the exit would have sent a signal); the terminate call made
\* after it returned too, and no signal was ever sent.
C18_Witness ==
  /\ result.call = 2
  /\ result.op = "terminate"
  /\ result.kind = "ok"
  /\ \A c \in Callers : pc[c] = "idle"
  /\ ~alive
  /\ stderrUnread = 1
  /\ mkdtemps = 0
  /\ sigterms = 0

====
